---- MODULE Spec2Model ----
(***************************************************************************)
(* jobHive-server: the Socket.IO / Express notification server.            *)
(*                                                                         *)
(* The repository holds three revisions of the server program:             *)
(*   "server"   src/server.js                                              *)
(*   "part_001" src/unnamed/part_001                                       *)
(*   "part_000" src/unnamed/part_000                                       *)
(* The variable `variant` says which of them is the running process; it is *)
(* chosen in Init and never changes.  Every handler is translated from the *)
(* revision(s) that define it.                                             *)
(*                                                                         *)
(* Strings that the code compares or concatenates (the e-mail identities   *)
(* and the room id) are sequences of UTF-16 code units.                    *)
(***************************************************************************)
EXTENDS Integers, Sequences, FiniteSets, TLC

VARIABLES
    variant,            \* which revision of the program is running
    live,               \* ids of the sockets connected now
    nextId,             \* how many sockets have connected so far
    connectedUsers,     \* the Map email -> socket.id, in insertion order
    jobsCollection,     \* TRUE once connectToDatabase has assigned it
    messagesCollection, \* TRUE once connectToDatabase has assigned it
    jobsDb,             \* documents of the jobs collection
    messagesDb,         \* documents of the messages collection
    nextReq,            \* how many domain events / HTTP requests were taken
    inputs,             \* inputs[r]: the event or request number r
    pending,            \* handlers suspended at an await
    emitted,            \* every io.emit / io.to(..).emit call, in order
    responses,          \* every HTTP response sent, in order
    outcome,            \* outcome[r]: how far the handler of number r has got, and how it ended
    tracking,           \* which history is recorded: "lifecycle" (the two variables
                        \* below), "sender", "receiver" (fields of a sendMessage input)
    registered,         \* registered[id]: e-mails socket id has sent registerUser for
    lastEvent,          \* the lifecycle event handled last
    queue,              \* socket events received and not yet given to their handler
    user1, user2,       \* arguments of generateRoomId (room specification)
    roomAB, roomBA      \* generateRoomId(user1, user2), generateRoomId(user2, user1)

serverVars == <<variant, live, nextId, connectedUsers, jobsCollection,
                messagesCollection, jobsDb, messagesDb, nextReq, inputs, pending,
                emitted, responses, outcome, tracking, registered, lastEvent,
                queue>>
roomVars == <<user1, user2, roomAB, roomBA>>
vars == <<serverVars, roomVars>>

----------------------------------------------------------------------------
(* Bounds *)

MaxConns == 2         \* sockets that ever connect
MaxMessages == 2      \* sendMessage events
MaxJobPosts == 2      \* newJobPosted events and job-post requests
MaxApplications == 1  \* jobApplication events and application requests
MaxLen == 3           \* length of an identity given to generateRoomId
MaxInFlight == 1      \* sendMessage events in the specification of in-flight writes
MaxEvents == 2        \* socket events received in the specification with the queue

----------------------------------------------------------------------------
(* Values *)

Variants == {"server", "part_001", "part_000"}
HasMessaging == variant \in {"server", "part_001"}

\* connectedUsers.get(k) for a missing key; socket ids are 1, 2, ...
Undefined == 0

SocketIds == 1..MaxConns

\* "a", "b" as code units
Users == {<<97>>, <<98>>}
Titles == {"t2"}
Names == {"ann"}
Texts == {"hi"}

\* undefined where a handler expects a string: the argument of registerUser left
\* out, or a field missing from the payload of sendMessage.  An identity is a
\* sequence of code units, of which -1 is none.
Absent == <<-1>>
NoText == "undefined"
Company == "co"

\* ObjectIds are numbered 1, 2, ...; Malformed stands for a jobId string that is
\* not 24 hex digits, for which new ObjectId(jobId) throws.
Malformed == 0
ExistingId == 1
JobIdInputs == {Malformed, ExistingId, ExistingId + 1}
InitialJobs == {[id |-> ExistingId, title |-> "t1"]}

Max(S) == CHOOSE x \in S : \A y \in S : y <= x
Min(S) == CHOOSE x \in S : \A y \in S : x <= y

----------------------------------------------------------------------------
(* Strings and generateRoomId *)

Separator == <<95>>  \* "_"

Alphabet == {95, 97, 98}
RECURSIVE StringsUpTo(_)
StringsUpTo(n) ==
    IF n = 0 THEN {<<>>}
    ELSE LET S == StringsUpTo(n - 1)
         IN  S \cup {Append(s, ch) : s \in S, ch \in Alphabet}
Identities == StringsUpTo(MaxLen) \ {<<>>}

\* Array.prototype.sort's default order on strings: code units, lexicographic
RECURSIVE StrLess(_, _)
StrLess(s, t) ==
    IF t = <<>> THEN FALSE
    ELSE IF s = <<>> THEN TRUE
    ELSE IF Head(s) # Head(t) THEN Head(s) < Head(t)
    ELSE StrLess(Tail(s), Tail(t))

\* the sort left out
MutSortPair(x, y) == <<x, y>>

\* [x, y].sort(): undefined elements go last; stable, so equal elements keep
\* their order
SortPair(x, y) ==
    IF x = Absent THEN <<y, x>>
    ELSE IF y = Absent THEN <<x, y>>
    ELSE IF StrLess(y, x) THEN <<y, x>> ELSE <<x, y>>

\* join converts an undefined element to the empty string
ToJoined(x) == IF x = Absent THEN <<>> ELSE x
Join(p) == ToJoined(p[1]) \o Separator \o ToJoined(p[2])

generateRoomId(u1, u2) == Join(SortPair(u1, u2))

----------------------------------------------------------------------------
(* The Map connectedUsers: a sequence of entries in insertion order *)

MapHas(m, k) == \E i \in 1..Len(m) : m[i].email = k

MapGet(m, k) ==
    IF MapHas(m, k)
    THEN m[CHOOSE i \in 1..Len(m) : m[i].email = k].id
    ELSE Undefined

\* set that never replaces
MutMapSet(m, k, v) == Append(m, [email |-> k, id |-> v])

MapSet(m, k, v) ==
    IF MapHas(m, k)
    THEN [i \in 1..Len(m) |->
            IF m[i].email = k THEN [email |-> k, id |-> v] ELSE m[i]]
    ELSE Append(m, [email |-> k, id |-> v])

MapDelete(m, k) == SelectSeq(m, LAMBDA e : e.email # k)

MapKeys(m) == {m[i].email : i \in 1..Len(m)}
OwnedBy(m, c) == {m[i].email : i \in {j \in 1..Len(m) : m[j].id = c}}

\* for (const [email, id] of connectedUsers.entries())
\*   if (id === socket.id) { connectedUsers.delete(email); break; }
DeleteFirstOwned(m, c) ==
    LET hits == {i \in 1..Len(m) : m[i].id = c}
    IN  IF hits = {} THEN m ELSE MapDelete(m, m[Min(hits)].email)

\* the same loop without the break
DeleteAllOwned(m, c) == SelectSeq(m, LAMBDA e : e.id # c)

Unregister(m, c) ==
    IF variant = "part_000" THEN DeleteAllOwned(m, c) ELSE DeleteFirstOwned(m, c)

----------------------------------------------------------------------------
(* The Socket.IO server: io.emit and io.to(room).emit *)

\* Every socket is in the room named by its own id and in no other room;
\* an emit with no room selected reaches every connected socket.
Recipients(rooms) == IF rooms = {} THEN live ELSE live \cap rooms

\* the broadcast sent to the registered sockets only
MutIoEmit(log, ev, data, req) ==
    Append(log, [ev |-> ev, rooms |-> {}, data |-> data, req |-> req,
                 rcpt |-> live \cap {connectedUsers[i].id : i \in 1..Len(connectedUsers)}])

IoEmit(log, ev, data, req) ==
    Append(log, [ev |-> ev, rooms |-> {}, rcpt |-> Recipients({}),
                 data |-> data, req |-> req])

\* the room selection dropped: a broadcast
MutIoToEmit(log, room, ev, data, req) ==
    Append(log, [ev |-> ev, rooms |-> {}, rcpt |-> Recipients({}),
                 data |-> data, req |-> req])

\* the emit repeated
MutIoToEmitTwice(log, room, ev, data, req) ==
    LET e == [ev |-> ev, rooms |-> {room}, rcpt |-> Recipients({room}),
              data |-> data, req |-> req]
    IN  Append(Append(log, e), e)

IoToEmit(log, room, ev, data, req) ==
    Append(log, [ev |-> ev, rooms |-> {room}, rcpt |-> Recipients({room}),
                 data |-> data, req |-> req])

----------------------------------------------------------------------------
(* Initial state *)

NoRoom == <<>>

InitServer ==
    /\ variant \in Variants
    /\ live = {}
    /\ nextId = 0
    /\ connectedUsers = <<>>
    /\ jobsCollection = FALSE
    /\ messagesCollection = FALSE
    /\ jobsDb = InitialJobs
    /\ messagesDb = <<>>
    /\ nextReq = 0
    /\ inputs = <<>>
    /\ pending = {}
    /\ emitted = <<>>
    /\ responses = <<>>
    /\ outcome = <<>>
    /\ registered = [c \in SocketIds |-> {}]
    /\ lastEvent = [kind |-> "none", id |-> Undefined, email |-> <<>>]
    /\ queue = [arrived |-> 0, waiting |-> <<>>]

RoomIdle ==
    /\ user1 = <<97>>
    /\ user2 = <<98>>
    /\ roomAB = NoRoom
    /\ roomBA = NoRoom

----------------------------------------------------------------------------
(* connectToDatabase *)

ConnectToDatabase ==
    /\ ~jobsCollection
    /\ jobsCollection' = TRUE
    /\ messagesCollection' = HasMessaging
    /\ UNCHANGED <<variant, live, nextId, connectedUsers, jobsDb, messagesDb,
                   nextReq, inputs, pending, emitted, responses, outcome,
                   tracking, registered, lastEvent, queue, roomVars>>

----------------------------------------------------------------------------
(* Socket lifecycle: connection, registerUser, disconnect *)

\* The event loop.  A socket event is given to its handler either as it is
\* received (the queue stays empty) or, when "queue" is in tracking, after it has
\* waited in the queue behind the events received before it; a handler runs up to
\* its first await and the loop then goes on to the next event.

\* the next event taken only when no handler is suspended at an await
MutTaken(ev) ==
    IF "queue" \in tracking
    THEN /\ pending = {}
         /\ queue.waiting # <<>>
         /\ Head(queue.waiting).kind = ev.kind
         /\ Head(queue.waiting) = ev
         /\ queue' = [queue EXCEPT !.waiting = Tail(@)]
    ELSE UNCHANGED queue

Taken(ev) ==
    IF "queue" \in tracking
    THEN /\ queue.waiting # <<>>
         /\ Head(queue.waiting).kind = ev.kind
         /\ Head(queue.waiting) = ev
         /\ queue' = [queue EXCEPT !.waiting = Tail(@)]
    ELSE UNCHANGED queue

Track(event) == IF "lifecycle" \in tracking THEN event ELSE lastEvent

Connection ==
    /\ nextId < MaxConns
    /\ nextId' = nextId + 1
    /\ live' = live \cup {nextId + 1}
    /\ lastEvent' = Track([kind |-> "connection", id |-> nextId + 1, email |-> <<>>])
    /\ UNCHANGED <<variant, connectedUsers, jobsCollection, messagesCollection,
                   jobsDb, messagesDb, nextReq, inputs, pending, emitted,
                   responses, outcome, tracking, registered, queue, roomVars>>

\* the stored messages of the registering user pushed to the socket
MutRegisterUser(c, email) ==
    LET mine == SelectSeq(messagesDb, LAMBDA m : m.receiverEmail = email)
        push == [i \in 1..Len(mine) |->
                    [ev |-> "receiveMessage", rooms |-> {c}, rcpt |-> live \cap {c},
                     data |-> mine[i], req |-> mine[i].timestamp]]
    IN
    /\ c \in live
    /\ Taken([kind |-> "registerUser", socket |-> c, email |-> email])
    /\ connectedUsers' = MapSet(connectedUsers, email, c)
    /\ emitted' = emitted \o push
    /\ UNCHANGED <<variant, live, nextId, jobsCollection, messagesCollection,
                   jobsDb, messagesDb, nextReq, inputs, pending,
                   responses, outcome, tracking, registered, lastEvent, roomVars>>

RegisterUser(c, email) ==
    /\ c \in live
    /\ Taken([kind |-> "registerUser", socket |-> c, email |-> email])
    /\ connectedUsers' = MapSet(connectedUsers, email, c)
    /\ registered' = IF "lifecycle" \in tracking THEN [registered EXCEPT ![c] = @ \cup {email}]
                      ELSE registered
    /\ lastEvent' = Track([kind |-> "registerUser", id |-> c, email |-> email])
    /\ UNCHANGED <<variant, live, nextId, jobsCollection, messagesCollection,
                   jobsDb, messagesDb, nextReq, inputs, pending, emitted,
                   responses, outcome, tracking, roomVars>>

Disconnect(c) ==
    /\ c \in live
    /\ Taken([kind |-> "disconnect", socket |-> c])
    /\ live' = live \ {c}
    /\ connectedUsers' = Unregister(connectedUsers, c)
    /\ lastEvent' = Track([kind |-> "disconnect", id |-> c, email |-> <<>>])
    /\ UNCHANGED <<variant, nextId, jobsCollection, messagesCollection,
                   jobsDb, messagesDb, nextReq, inputs, pending, emitted,
                   responses, outcome, tracking, registered, roomVars>>

----------------------------------------------------------------------------
(* Bookkeeping shared by the handlers of domain events and HTTP requests *)

presenceVars == <<live, nextId, connectedUsers, tracking, registered, lastEvent>>
configVars == <<variant, presenceVars, jobsCollection, messagesCollection, roomVars>>
fixedVars == <<configVars, queue>>

\* The exceptions that reach a handler's catch block: a property read on undefined
\* or null, new ObjectId of a malformed string, a rejected persistence promise
Caught == {"TypeError", "BSONError", "rejected"}

\* a new event or request r = nextReq + 1 with input `in`, whose handler has so far
\* ended as `out`: "pending" (suspended at an await), "returned" (ran to its end),
\* one of Caught (that exception reached the handler's catch block), or "threw" (an
\* exception left the handler)
Begin(in, out, cap) ==
    /\ nextReq < cap
    /\ nextReq' = nextReq + 1
    /\ inputs' = Append(inputs, in)
    /\ outcome' = Append(outcome, out)

\* the suspended handler f resumes and ends as `out`
Resume(f, out) ==
    /\ f \in pending
    /\ pending' = pending \ {f}
    /\ outcome' = [outcome EXCEPT ![f.req] = out]
    /\ UNCHANGED <<nextReq, inputs>>

Send(log, req, status, body) ==
    Append(log, [req |-> req, status |-> status, body |-> body])

Notification(title, applicantName) == [title |-> title, applicantName |-> applicantName]
JobPosted(title) == [title |-> title, company |-> Company]

----------------------------------------------------------------------------
(* Socket events newJobPosted and jobApplication *)

NewJobPosted(c, data) ==
    /\ c \in live
    /\ Taken([kind |-> "newJobPosted", socket |-> c, data |-> data])
    /\ Begin([kind |-> "newJobPosted", data |-> data], "returned", MaxJobPosts)
    /\ emitted' = IoEmit(emitted, "newJobPosted", data, nextReq + 1)
    /\ UNCHANGED <<configVars, jobsDb, messagesDb, pending, responses>>

JobApplication(c, employer, title, applicantName) ==
    LET employerSocketId == MapGet(connectedUsers, employer) IN
    /\ c \in live
    /\ Taken([kind |-> "jobApplication", socket |-> c, employer |-> employer,
              title |-> title, applicantName |-> applicantName])
    /\ Begin([kind |-> "jobApplication", employer |-> employer,
              title |-> title, applicantName |-> applicantName], "returned", MaxApplications)
    /\ emitted' = IF employerSocketId # Undefined
                  THEN IoToEmit(emitted, employerSocketId, "jobApplicationNotification",
                                Notification(title, applicantName), nextReq + 1)
                  ELSE emitted
    /\ UNCHANGED <<configVars, jobsDb, messagesDb, pending, responses>>

----------------------------------------------------------------------------
(* Socket event sendMessage (server.js, part_001) *)

SendMessage(c, senderEmail, receiverEmail, text) ==
    LET req == nextReq + 1
        message == [senderEmail |-> senderEmail, receiverEmail |-> receiverEmail,
                    text |-> text,
                    roomId |-> generateRoomId(senderEmail, receiverEmail),
                    timestamp |-> req]
        in == [kind |-> "sendMessage", senderEmail |-> senderEmail,
               receiverEmail |-> receiverEmail, text |-> text,
               \* history: the sending socket, and the receiver's entry at that time
               socket |-> IF "sender" \in tracking THEN c ELSE Undefined,
               atSend |-> IF "receiver" \in tracking
                          THEN MapGet(connectedUsers, receiverEmail) ELSE Undefined]
    IN
    /\ HasMessaging
    /\ c \in live
    /\ Taken([kind |-> "sendMessage", socket |-> c, senderEmail |-> senderEmail,
              receiverEmail |-> receiverEmail, text |-> text])
    /\ IF messagesCollection
       THEN \* insertOne is called; the handler suspends at the await
            /\ Begin(in, "pending", MaxMessages)
            /\ pending' = pending \cup {[req |-> req, kind |-> "sendMessage",
                                         message |-> message]}
       ELSE \* messagesCollection is undefined: TypeError inside the try
            /\ Begin(in, "TypeError", MaxMessages)
            /\ UNCHANGED pending
    /\ UNCHANGED <<configVars, jobsDb, messagesDb, emitted, responses>>

\* the receiver looked up before the await instead of after it
MutSendMessageSaved(f) ==
    LET receiverSocketId == inputs[f.req].atSend IN
    /\ f \in pending
    /\ f.kind = "sendMessage"
    /\ Resume(f, "returned")
    /\ messagesDb' = Append(messagesDb, f.message)
    /\ emitted' = IF receiverSocketId # Undefined
                  THEN IoToEmit(emitted, receiverSocketId, "receiveMessage",
                                f.message, f.req)
                  ELSE emitted
    /\ UNCHANGED <<fixedVars, jobsDb, responses>>

\* insertOne resolved: the lines after the await run
SendMessageSaved(f) ==
    LET receiverSocketId == MapGet(connectedUsers, f.message.receiverEmail) IN
    /\ f \in pending
    /\ f.kind = "sendMessage"
    /\ Resume(f, "returned")
    /\ messagesDb' = Append(messagesDb, f.message)
    /\ emitted' = IF receiverSocketId # Undefined
                  THEN IoToEmit(emitted, receiverSocketId, "receiveMessage",
                                f.message, f.req)
                  ELSE emitted
    /\ UNCHANGED <<fixedVars, jobsDb, responses>>

\* the delivery moved out of the try block
MutSendMessageFailed(f) ==
    LET receiverSocketId == MapGet(connectedUsers, f.message.receiverEmail) IN
    /\ f \in pending
    /\ f.kind = "sendMessage"
    /\ Resume(f, "rejected")
    /\ emitted' = IF receiverSocketId # Undefined
                  THEN IoToEmit(emitted, receiverSocketId, "receiveMessage",
                                f.message, f.req)
                  ELSE emitted
    /\ UNCHANGED <<fixedVars, jobsDb, messagesDb, responses>>

\* insertOne rejected: the catch block runs
SendMessageFailed(f) ==
    /\ f \in pending
    /\ f.kind = "sendMessage"
    /\ Resume(f, "rejected")
    /\ UNCHANGED <<fixedVars, jobsDb, messagesDb, emitted, responses>>

----------------------------------------------------------------------------
(* POST /api/jobs (part_001, part_000) *)

PostJobs(title) ==
    LET req == nextReq + 1
        in == [kind |-> "jobs", title |-> title]
    IN
    /\ variant \in {"part_001", "part_000"}
    /\ IF jobsCollection
       THEN /\ Begin(in, "pending", MaxJobPosts)
            /\ pending' = pending \cup {[req |-> req, kind |-> "jobs", title |-> title]}
            /\ UNCHANGED responses
       ELSE \* jobsCollection is undefined: TypeError inside the try
            /\ Begin(in, "TypeError", MaxJobPosts)
            /\ responses' = Send(responses, req, 500, [error |-> "Failed to post job."])
            /\ UNCHANGED pending
    /\ UNCHANGED <<fixedVars, jobsDb, messagesDb, emitted>>

PostJobsInserted(f) ==
    LET insertedId == Max({j.id : j \in jobsDb}) + 1 IN
    /\ f \in pending
    /\ f.kind = "jobs"
    /\ Resume(f, "returned")
    /\ jobsDb' = jobsDb \cup {[id |-> insertedId, title |-> f.title]}
    /\ emitted' = IoEmit(emitted, "newJobPosted", JobPosted(f.title), f.req)
    /\ responses' = Send(responses, f.req, 200,
                         [success |-> TRUE, insertedId |-> insertedId])
    /\ UNCHANGED <<fixedVars, messagesDb>>

\* the broadcast placed before the awaited insert
MutPostJobsFailed(f) ==
    /\ f \in pending
    /\ f.kind = "jobs"
    /\ Resume(f, "rejected")
    /\ emitted' = IoEmit(emitted, "newJobPosted", JobPosted(f.title), f.req)
    /\ responses' = Send(responses, f.req, 500, [error |-> "Failed to post job."])
    /\ UNCHANGED <<fixedVars, jobsDb, messagesDb>>

PostJobsFailed(f) ==
    /\ f \in pending
    /\ f.kind = "jobs"
    /\ Resume(f, "rejected")
    /\ responses' = Send(responses, f.req, 500, [error |-> "Failed to post job."])
    /\ UNCHANGED <<fixedVars, jobsDb, messagesDb, emitted>>

----------------------------------------------------------------------------
(* POST /api/apply (part_001, part_000) and POST /api/emit-apply (server.js) *)

PostApply(jobId, applicantName, employer) ==
    LET req == nextReq + 1
        in == [kind |-> "apply", jobId |-> jobId,
               applicantName |-> applicantName, employer |-> employer]
    IN
    /\ IF jobsCollection /\ jobId # Malformed
       THEN /\ Begin(in, "pending", MaxApplications)
            /\ pending' = pending \cup
                    {[req |-> req, kind |-> "apply", jobId |-> jobId,
                      applicantName |-> applicantName, employer |-> employer]}
            /\ UNCHANGED responses
       ELSE \* jobsCollection is undefined, or new ObjectId(jobId) throws: the catch
            /\ Begin(in, IF jobsCollection THEN "BSONError" ELSE "TypeError",
                     MaxApplications)
            /\ responses' = Send(responses, req, 500, [error |-> "Failed to apply."])
            /\ UNCHANGED pending
    /\ UNCHANGED <<fixedVars, jobsDb, messagesDb, emitted>>

\* findOne({_id}): the matching documents (none: findOne resolves to null)
FindOne(db, jobId) == {j \in db : j.id = jobId}

TitleOf(found) == (CHOOSE j \in found : TRUE).title

Applied == [success |-> TRUE, message |-> "Application notification sent"]

\* the offline employer answered as notify-employer answers it
MutApplyFoundPart001(f, found) ==
    IF found = {} \/ MapGet(connectedUsers, f.employer) = Undefined
    THEN /\ Resume(f, "returned")
         /\ responses' = Send(responses, f.req, 404, [error |-> "Employer not connected"])
         /\ UNCHANGED emitted
    ELSE /\ Resume(f, "returned")
         /\ emitted' = IoToEmit(emitted, MapGet(connectedUsers, f.employer),
                                "jobApplicationNotification",
                                Notification(TitleOf(found), f.applicantName), f.req)
         /\ responses' = Send(responses, f.req, 200, Applied)

\* part_001, lines 143-159
ApplyFoundPart001(f, found) ==
    LET employerSocketId == MapGet(connectedUsers, f.employer) IN
    IF found = {}
    THEN /\ Resume(f, "returned")
         /\ responses' = Send(responses, f.req, 404, [error |-> "Job not found"])
         /\ UNCHANGED emitted
    ELSE /\ Resume(f, "returned")
         /\ emitted' = IF employerSocketId # Undefined
                       THEN IoToEmit(emitted, employerSocketId,
                                     "jobApplicationNotification",
                                     Notification(TitleOf(found), f.applicantName), f.req)
                       ELSE emitted
         /\ responses' = Send(responses, f.req, 200, Applied)

\* part_000, lines 98-108: io.to(connectedUsers.get(employerEmail)) with no test
ApplyFoundPart000(f, found) ==
    IF found = {}
    THEN /\ Resume(f, "returned")
         /\ responses' = Send(responses, f.req, 404, [error |-> "Job not found"])
         /\ UNCHANGED emitted
    ELSE /\ Resume(f, "returned")
         /\ emitted' = IoToEmit(emitted, MapGet(connectedUsers, f.employer),
                                "jobApplicationNotification",
                                Notification(TitleOf(found), f.applicantName), f.req)
         /\ responses' = Send(responses, f.req, 200, Applied)

\* server.js, lines 141-153: no test of job; job.title throws on null
ApplyFoundServer(f, found) ==
    LET employerSocketId == MapGet(connectedUsers, f.employer) IN
    IF employerSocketId # Undefined
    THEN IF found = {}
         THEN /\ Resume(f, "TypeError")
              /\ responses' = Send(responses, f.req, 500, [error |-> "Failed to apply."])
              /\ UNCHANGED emitted
         ELSE /\ Resume(f, "returned")
              /\ emitted' = IoToEmit(emitted, employerSocketId,
                                     "jobApplicationNotification",
                                     Notification(TitleOf(found), f.applicantName), f.req)
              /\ responses' = Send(responses, f.req, 200, Applied)
    ELSE /\ Resume(f, "returned")
         /\ responses' = Send(responses, f.req, 200, Applied)
         /\ UNCHANGED emitted

\* findOne resolved
PostApplyFound(f) ==
    /\ f \in pending
    /\ f.kind = "apply"
    /\ CASE variant = "part_001" -> ApplyFoundPart001(f, FindOne(jobsDb, f.jobId))
         [] variant = "part_000" -> ApplyFoundPart000(f, FindOne(jobsDb, f.jobId))
         [] variant = "server" -> ApplyFoundServer(f, FindOne(jobsDb, f.jobId))
    /\ UNCHANGED <<fixedVars, jobsDb, messagesDb>>

\* findOne rejected
PostApplyFailed(f) ==
    /\ f \in pending
    /\ f.kind = "apply"
    /\ Resume(f, "rejected")
    /\ responses' = Send(responses, f.req, 500, [error |-> "Failed to apply."])
    /\ UNCHANGED <<fixedVars, jobsDb, messagesDb, emitted>>

----------------------------------------------------------------------------
(* The endpoints that do no I/O *)

\* POST /api/notify-employer: part_001 answers 404 when the employer has no entry,
\* part_000 answers success either way
PostNotifyEmployer(employer, title, applicantName) ==
    LET req == nextReq + 1
        employerSocketId == MapGet(connectedUsers, employer)
    IN
    /\ variant \in {"part_001", "part_000"}
    /\ Begin([kind |-> "notify-employer", employer |-> employer,
              title |-> title, applicantName |-> applicantName], "returned", MaxApplications)
    /\ IF employerSocketId # Undefined
       THEN /\ emitted' = IoToEmit(emitted, employerSocketId,
                                   "jobApplicationNotification",
                                   Notification(title, applicantName), req)
            /\ responses' = Send(responses, req, 200,
                    IF variant = "part_001"
                    THEN [success |-> TRUE, message |-> "Employer notified manually"]
                    ELSE [success |-> TRUE])
       ELSE /\ UNCHANGED emitted
            /\ responses' = IF variant = "part_001"
                            THEN Send(responses, req, 404,
                                      [error |-> "Employer not connected"])
                            ELSE Send(responses, req, 200, [success |-> TRUE])
    /\ UNCHANGED <<fixedVars, jobsDb, messagesDb, pending>>

\* POST /api/apply-job (part_000)
PostApplyJob(employer, title, applicantName) ==
    LET req == nextReq + 1
        socketId == MapGet(connectedUsers, employer)
    IN
    /\ variant = "part_000"
    /\ Begin([kind |-> "apply-job", employer |-> employer,
              title |-> title, applicantName |-> applicantName], "returned", MaxApplications)
    /\ emitted' = IF socketId # Undefined
                  THEN IoToEmit(emitted, socketId, "jobApplicationNotification",
                                Notification(title, applicantName), req)
                  ELSE emitted
    /\ responses' = Send(responses, req, 200,
                         [success |-> TRUE, message |-> "Application sent successfully"])
    /\ UNCHANGED <<fixedVars, jobsDb, messagesDb, pending>>

\* POST /api/emit-job-post (server.js) and POST /api/notify-job-post (part_000)
PostEmitJobPost(title) ==
    LET req == nextReq + 1 IN
    /\ variant \in {"server", "part_000"}
    /\ Begin([kind |-> "emit-job-post", title |-> title],
             "returned", MaxJobPosts)
    /\ emitted' = IoEmit(emitted, "newJobPosted", JobPosted(title), req)
    /\ responses' = Send(responses, req, 200, [success |-> TRUE])
    /\ UNCHANGED <<fixedVars, jobsDb, messagesDb, pending>>

----------------------------------------------------------------------------
(* Socket events received and waiting for the event loop *)

SocketEvents ==
    {[kind |-> "registerUser", socket |-> c, email |-> e] : c \in SocketIds, e \in Users}
    \cup {[kind |-> "disconnect", socket |-> c] : c \in SocketIds}
    \cup {[kind |-> "newJobPosted", socket |-> c, data |-> JobPosted(t)] :
                c \in SocketIds, t \in Titles}
    \cup {[kind |-> "jobApplication", socket |-> c, employer |-> <<98>>,
           title |-> t, applicantName |-> n] : c \in SocketIds, t \in Titles, n \in Names}
    \cup {[kind |-> "sendMessage", socket |-> c, senderEmail |-> <<97>>,
           receiverEmail |-> <<98>>, text |-> t] : c \in SocketIds, t \in Texts}

\* the bound that the handler of an event of this kind puts on nextReq
Cap(kind) ==
    CASE kind = "sendMessage" -> MaxMessages
      [] kind = "newJobPosted" -> MaxJobPosts
      [] kind = "jobApplication" -> MaxApplications

Counted == {"sendMessage", "newJobPosted", "jobApplication"}

\* An event of a connected socket is received.  A socket sends nothing after its
\* disconnect; an event that its handler would count in nextReq is received only
\* if the handler's bound will admit it.
Receive(ev) ==
    LET w == queue.waiting IN
    /\ "queue" \in tracking
    /\ queue.arrived < MaxEvents
    /\ ev.socket \in live
    /\ \A i \in 1..Len(w) : ~(w[i].kind = "disconnect" /\ w[i].socket = ev.socket)
    /\ ev.kind \in Counted =>
            nextReq + Cardinality({i \in 1..Len(w) : w[i].kind \in Counted}) < Cap(ev.kind)
    /\ queue' = [arrived |-> queue.arrived + 1, waiting |-> Append(w, ev)]
    /\ UNCHANGED <<configVars, jobsDb, messagesDb, nextReq, inputs, pending, emitted,
                   responses, outcome>>

----------------------------------------------------------------------------
(* generateRoomId on its own *)

InitRoom ==
    /\ user1 \in Identities
    /\ user2 \in Identities
    /\ roomAB = NoRoom
    /\ roomBA = NoRoom

RoomForward ==
    /\ roomAB = NoRoom
    /\ roomAB' = generateRoomId(user1, user2)
    /\ UNCHANGED <<serverVars, user1, user2, roomBA>>

RoomBackward ==
    /\ roomBA = NoRoom
    /\ roomBA' = generateRoomId(user2, user1)
    /\ UNCHANGED <<serverVars, user1, user2, roomAB>>

----------------------------------------------------------------------------
(* Specifications.  Each one is the server under the events of one concern;  *)
(* the socket lifecycle and connectToDatabase are part of all of them.       *)

Lifecycle ==
    \/ Connection
    \/ \E c \in SocketIds, email \in Users : RegisterUser(c, email)
    \/ \E c \in SocketIds : Disconnect(c)

\* Presence registry, with the history variables recorded
InitPresence == InitServer /\ tracking = {"lifecycle"} /\ RoomIdle
NextPresence == Lifecycle
SpecPresence == InitPresence /\ [][NextPresence]_vars

\* Chat messages.  part_001's sendMessage, registerUser and disconnect handlers
\* (lines 53-56 and 80-113) are the text of server.js's (lines 54-57 and 81-114),
\* so the server.js revision stands for both.
InitChat == InitServer /\ variant = "server" /\ tracking = {} /\ RoomIdle
NextChat ==
    \/ Lifecycle
    \/ ConnectToDatabase
    \/ \E c \in SocketIds, s \in Users, t \in Texts :
            \E r \in Users \ {s} : SendMessage(c, s, r, t)
    \/ \E f \in pending : SendMessageSaved(f)
    \/ \E f \in pending : SendMessageFailed(f)
SpecChat == InitChat /\ [][NextChat]_vars

\* Messages from "a" to "b", with the receiver's entry at the time of each
\* sendMessage recorded
InitInFlight == InitServer /\ variant = "server" /\ tracking = {"receiver"} /\ RoomIdle
NextInFlight ==
    \/ Lifecycle
    \/ ConnectToDatabase
    \/ \E c \in SocketIds, t \in Texts :
            nextReq < MaxInFlight /\ SendMessage(c, <<97>>, <<98>>, t)
    \/ \E f \in pending : SendMessageSaved(f)
    \/ \E f \in pending : SendMessageFailed(f)
SpecInFlight == InitInFlight /\ [][NextInFlight]_vars

\* Messages from "a" to "b", with the sending socket of each recorded
InitOrder == InitServer /\ variant = "server" /\ tracking = {"sender"} /\ RoomIdle
NextOrder ==
    \/ Lifecycle
    \/ ConnectToDatabase
    \/ \E c \in SocketIds, t \in Texts : SendMessage(c, <<97>>, <<98>>, t)
    \/ \E f \in pending : SendMessageSaved(f)
    \/ \E f \in pending : SendMessageFailed(f)
SpecOrder == InitOrder /\ [][NextOrder]_vars

\* Socket events that wait in the queue until the event loop gives them to their
\* handlers.  The loop is fair: an event at the head of the queue is eventually
\* dispatched.  Nothing is assumed of the persistence service: a write may stay in
\* flight for ever.
Dispatch ==
    \/ \E c \in SocketIds, email \in Users : RegisterUser(c, email)
    \/ \E c \in SocketIds : Disconnect(c)
    \/ \E c \in SocketIds, t \in Titles : NewJobPosted(c, JobPosted(t))
    \/ \E c \in SocketIds, t \in Titles, n \in Names : JobApplication(c, <<98>>, t, n)
    \/ \E c \in SocketIds, t \in Texts : SendMessage(c, <<97>>, <<98>>, t)
InitStall == InitServer /\ variant = "server" /\ tracking = {"queue", "receiver"} /\ RoomIdle
NextStall ==
    \/ Connection
    \/ ConnectToDatabase
    \/ \E ev \in SocketEvents : Receive(ev)
    \/ Dispatch
    \/ \E f \in pending : SendMessageSaved(f)
    \/ \E f \in pending : SendMessageFailed(f)
SpecStall == InitStall /\ [][NextStall]_vars /\ WF_vars(Dispatch)

\* Applications: the jobApplication event and the apply endpoint
InitApply == InitServer /\ tracking = {} /\ RoomIdle
NextApply ==
    \/ Lifecycle
    \/ ConnectToDatabase
    \/ \E c \in SocketIds, e \in Users, t \in Titles, n \in Names :
            JobApplication(c, e, t, n)
    \/ \E j \in JobIdInputs, n \in Names, e \in Users : PostApply(j, n, e)
    \/ \E f \in pending : PostApplyFound(f)
    \/ \E f \in pending : PostApplyFailed(f)
SpecApply == InitApply /\ [][NextApply]_vars

\* Manual notifications (part_001, part_000)
InitNotify == InitServer /\ variant # "server" /\ tracking = {} /\ RoomIdle
NextNotify ==
    \/ Lifecycle
    \/ \E e \in Users, t \in Titles, n \in Names : PostNotifyEmployer(e, t, n)
    \/ \E e \in Users, t \in Titles, n \in Names : PostApplyJob(e, t, n)
SpecNotify == InitNotify /\ [][NextNotify]_vars

\* Every event that stores a message or notifies one user, in the revisions that
\* have the notify endpoints.  server.js's sendMessage handler (lines 81-104) is the
\* text of part_001's (lines 80-103), and its jobApplication handler (lines 65-79)
\* differs from part_001's (lines 64-78) only in the names of the payload's fields.
InitNoRetry == InitServer /\ variant # "server" /\ tracking = {} /\ RoomIdle
NextNoRetry ==
    \/ Lifecycle
    \/ ConnectToDatabase
    \/ \E c \in SocketIds, t \in Texts : SendMessage(c, <<97>>, <<98>>, t)
    \/ \E f \in pending : SendMessageSaved(f)
    \/ \E f \in pending : SendMessageFailed(f)
    \/ \E c \in SocketIds, t \in Titles, n \in Names : JobApplication(c, <<98>>, t, n)
    \/ \E n \in Names : PostApply(ExistingId, n, <<98>>)
    \/ \E f \in pending : PostApplyFound(f)
    \/ \E f \in pending : PostApplyFailed(f)
    \/ \E t \in Titles, n \in Names : PostNotifyEmployer(<<98>>, t, n)
    \/ \E t \in Titles, n \in Names : PostApplyJob(<<98>>, t, n)
SpecNoRetry == InitNoRetry /\ [][NextNoRetry]_vars

\* Events with a field missing: registerUser with no e-mail, sendMessage without
\* its receiver, its sender or its text
MalformedMessages ==
    {<<<<97>>, Absent, "hi">>, <<Absent, <<98>>, "hi">>, <<<<97>>, <<98>>, NoText>>}
InitMalformed == InitServer /\ variant = "server" /\ tracking = {} /\ RoomIdle
NextMalformed ==
    \/ Connection
    \/ ConnectToDatabase
    \/ \E c \in SocketIds, email \in {<<98>>, Absent} : RegisterUser(c, email)
    \/ \E c \in SocketIds : Disconnect(c)
    \/ \E c \in SocketIds, m \in MalformedMessages : SendMessage(c, m[1], m[2], m[3])
    \/ \E f \in pending : SendMessageSaved(f)
    \/ \E f \in pending : SendMessageFailed(f)
SpecMalformed == InitMalformed /\ [][NextMalformed]_vars

\* Job postings
InitJobs == InitServer /\ tracking = {} /\ RoomIdle
NextJobs ==
    \/ Lifecycle
    \/ ConnectToDatabase
    \/ \E c \in SocketIds, t \in Titles : NewJobPosted(c, JobPosted(t))
    \/ \E t \in Titles : PostJobs(t)
    \/ \E f \in pending : PostJobsInserted(f)
    \/ \E f \in pending : PostJobsFailed(f)
    \/ \E t \in Titles : PostEmitJobPost(t)
SpecJobs == InitJobs /\ [][NextJobs]_vars

\* generateRoomId
InitRoomSpec == InitServer /\ variant = "server" /\ tracking = {} /\ InitRoom
NextRoom == RoomForward \/ RoomBackward
SpecRoom == InitRoomSpec /\ [][NextRoom]_vars

----------------------------------------------------------------------------
(* Claims about the presence registry (SpecPresence) *)

EntriesOf(m, u) == {i \in 1..Len(m) : m[i].email = u}

\* C1: a registerUser(U) from connection C makes the registry map U to C; U's
\* entry changes in no other way than by a registerUser(U) or by its removal when
\* the connection it maps to disconnects; and U never has two entries.
C1_LastRegistrationWins ==
    [][ /\ \A c \in SocketIds, u \in Users :
              RegisterUser(c, u) => MapGet(connectedUsers', u) = c
        /\ \A u \in Users :
              MapGet(connectedUsers', u) # MapGet(connectedUsers, u) =>
                  \/ \E c \in SocketIds : RegisterUser(c, u)
                  \/ /\ MapGet(connectedUsers', u) = Undefined
                     /\ Disconnect(MapGet(connectedUsers, u))
        /\ \A u \in Users : Cardinality(EntriesOf(connectedUsers', u)) <= 1
      ]_vars

\* U was registered from connection c1 and then from connection c2, both still
\* connected, and the registry maps U to c2
C1_Witness ==
    \E c1 \in live, c2 \in live, u \in Users :
        /\ c1 # c2
        /\ u \in registered[c1]
        /\ lastEvent = [kind |-> "registerUser", id |-> c2, email |-> u]
        /\ MapGet(connectedUsers, u) = c2
        /\ Cardinality(EntriesOf(connectedUsers, u)) = 1

\* C2: when connection C disconnects, for every user U whose entry C owns exactly
\* that entry is removed and every other entry is left as it was; when C owns no
\* entry (superseded, or never registered) the registry is unchanged.
C2_DisconnectRemovesExactlyOwnEntry ==
    [][ \A c \in SocketIds :
            Disconnect(c) =>
                /\ \A u \in OwnedBy(connectedUsers, c) :
                        connectedUsers' = MapDelete(connectedUsers, u)
                /\ OwnedBy(connectedUsers, c) = {} => connectedUsers' = connectedUsers
      ]_vars

\* C11: handling one disconnect removes at most one presence entry, also when the
\* disconnecting connection has registered more than one user identity.
C11_DisconnectRemovesAtMostOne ==
    [][ \A c \in SocketIds :
            Disconnect(c) => Len(connectedUsers') >= Len(connectedUsers) - 1
      ]_vars

\* C12: every presence entry maps its user to a connection that has connected and
\* has not yet disconnected.
C12_EntriesReferToLiveConnections ==
    \A i \in 1..Len(connectedUsers) : connectedUsers[i].id \in live

----------------------------------------------------------------------------
(* Claims about sendMessage (SpecChat) *)

EmissionsOf(r) == {i \in 1..Len(emitted) : emitted[i].req = r}
Stored(r) == {k \in 1..Len(messagesDb) : messagesDb[k].timestamp = r}

\* C3: a receiveMessage emission exists only for a message whose insert has
\* completed successfully; a sendMessage whose insert failed, or that found
\* messagesCollection undefined, has no emission, and its error ended in the
\* handler's catch block (it never left the handler).
C3_PersistBeforeDeliver ==
    \A r \in 1..nextReq :
        inputs[r].kind = "sendMessage" =>
            /\ outcome[r] # "threw"
            /\ \A i \in EmissionsOf(r) :
                  /\ emitted[i].ev = "receiveMessage"
                  /\ outcome[r] = "returned"
                  /\ \E k \in Stored(r) : messagesDb[k] = emitted[i].data
            /\ outcome[r] \in Caught \cup {"pending"} => EmissionsOf(r) = {}

\* one message whose insert was rejected (nothing emitted, nothing stored) beside
\* one that was stored and delivered
C3_Witness ==
    \E r1 \in 1..nextReq, r2 \in 1..nextReq :
        /\ outcome[r1] = "rejected"
        /\ inputs[r1].kind = "sendMessage"
        /\ EmissionsOf(r1) = {}
        /\ Stored(r1) = {}
        /\ outcome[r2] = "returned"
        /\ EmissionsOf(r2) # {}
        /\ Stored(r2) # {}

----------------------------------------------------------------------------
(* Claims about writes in flight (SpecInFlight) *)

NewEmissions == SubSeq(emitted', Len(emitted) + 1, Len(emitted'))
NewResponses == SubSeq(responses', Len(responses) + 1, Len(responses'))

\* C13: registerUser and disconnect events are handled while a sendMessage write
\* is in flight, and nothing is emitted before the write completes; when it
\* completes, the receiveMessage emission is addressed to the socket the registry
\* maps the receiver to at that moment, and to no socket if the receiver has no
\* entry then; a socket the receiver was mapped to when the message was sent, and
\* is no longer mapped to, receives nothing.
C13_DeliveryUsesRegistryAtCompletion ==
    [][ /\ emitted' # emitted => \E f \in pending : SendMessageSaved(f)
        /\ \A f \in pending :
              SendMessageSaved(f) =>
                  LET now == MapGet(connectedUsers, f.message.receiverEmail)
                      was == inputs[f.req].atSend
                  IN  /\ now = Undefined => NewEmissions = <<>>
                      /\ now # Undefined =>
                            /\ Len(NewEmissions) = 1
                            /\ NewEmissions[1].ev = "receiveMessage"
                            /\ NewEmissions[1].req = f.req
                            /\ NewEmissions[1].rooms = {now}
                            /\ NewEmissions[1].rcpt \subseteq {now}
                      /\ was # now =>
                            \A i \in 1..Len(NewEmissions) : was \notin NewEmissions[i].rcpt
      ]_vars

\* the receiver was registered on socket c1 when the message was sent and
\* registered on another socket c2 before the write completed; the message went to
\* c2, and c1, still connected, received nothing
C13_Witness ==
    \E i \in 1..Len(emitted), c1 \in live, c2 \in live :
        /\ c1 # c2
        /\ inputs[emitted[i].req].kind = "sendMessage"
        /\ inputs[emitted[i].req].atSend = c1
        /\ emitted[i].rooms = {c2}
        /\ emitted[i].rcpt = {c2}

\* C17: a sendMessage whose write completes while the receiver has no presence
\* entry is stored and emits nothing; no connection and no registerUser emits
\* anything; and once a sendMessage has ended, nothing more is emitted for it.
C17_NoPushOnRegister ==
    [][ /\ \A f \in pending :
              (/\ SendMessageSaved(f)
               /\ MapGet(connectedUsers, f.message.receiverEmail) = Undefined)
                  => /\ messagesDb' = Append(messagesDb, f.message)
                     /\ emitted' = emitted
        /\ Connection => emitted' = emitted
        /\ \A c \in SocketIds, u \in Users : RegisterUser(c, u) => emitted' = emitted
        /\ \A r \in 1..nextReq :
              outcome[r] # "pending" =>
                  {i \in 1..Len(emitted') : emitted'[i].req = r} = EmissionsOf(r)
      ]_vars

\* a message was stored and not emitted, its receiver having had no entry when the
\* write completed; the receiver is now registered on a connected socket and the
\* message still has no emission
C17_Witness ==
    \E r \in 1..nextReq :
        /\ inputs[r].kind = "sendMessage"
        /\ outcome[r] = "returned"
        /\ Stored(r) # {}
        /\ EmissionsOf(r) = {}
        /\ MapGet(connectedUsers, inputs[r].receiverEmail) \in live

----------------------------------------------------------------------------
(* Claims about the order of messages (SpecOrder) *)

\* C14: when one socket sends sendMessage m1 and then m2 to the same receiver,
\* both writes succeed and both messages are emitted to the registered receiver,
\* m1 is stored before m2 and m1's receiveMessage is emitted before m2's.
C14_DeliveryOrderIsSendOrder ==
    \A r1 \in 1..nextReq, r2 \in 1..nextReq :
        (/\ r1 < r2
         /\ inputs[r1].kind = "sendMessage"
         /\ inputs[r2].kind = "sendMessage"
         /\ inputs[r1].socket = inputs[r2].socket
         /\ inputs[r1].receiverEmail = inputs[r2].receiverEmail
         /\ outcome[r1] = "returned"
         /\ outcome[r2] = "returned"
         /\ EmissionsOf(r1) # {}
         /\ EmissionsOf(r2) # {})
            => /\ \A k1 \in Stored(r1), k2 \in Stored(r2) : k1 < k2
               /\ \A i1 \in EmissionsOf(r1), i2 \in EmissionsOf(r2) : i1 < i2

----------------------------------------------------------------------------
(* Claims about a write that never completes (SpecStall) *)

Handled == queue.arrived - Len(queue.waiting)

\* C15: whatever writes stay in flight, and for however long, every socket event
\* received (registerUser, disconnect, jobApplication, newJobPosted, sendMessage)
\* is eventually given to its handler; and an event whose write has not completed
\* has emitted nothing.
C15_StalledWriteBlocksOnlyItsEvent ==
    /\ [](\A r \in 1..nextReq : outcome[r] = "pending" => EmissionsOf(r) = {})
    /\ \A n \in 1..MaxEvents : (queue.arrived >= n) ~> (Handled >= n)

\* the write of a sendMessage is in flight and has emitted nothing; the receiver,
\* who had no entry when the message was sent, has an entry now: a registerUser
\* received after the sendMessage has been handled while the write was in flight
C15_Witness ==
    \E f \in pending :
        /\ outcome[f.req] = "pending"
        /\ EmissionsOf(f.req) = {}
        /\ inputs[f.req].atSend = Undefined
        /\ MapGet(connectedUsers, f.message.receiverEmail) \in live
        /\ queue.waiting = <<>>

----------------------------------------------------------------------------
(* Claims about events with a missing field (SpecMalformed) *)

\* C18: a registerUser event with no user identity leaves the presence registry
\* unchanged, and a sendMessage event that lacks its sender, its receiver or its
\* text starts no insert, stores nothing and emits nothing.
C18_MalformedEventsAreRejected ==
    [][ /\ \A c \in SocketIds :
              RegisterUser(c, Absent) => connectedUsers' = connectedUsers
        /\ \A c \in SocketIds, m \in MalformedMessages :
              SendMessage(c, m[1], m[2], m[3]) => pending' = pending
        /\ \A f \in pending :
              (/\ <<f.message.senderEmail, f.message.receiverEmail, f.message.text>>
                        \in MalformedMessages
               /\ SendMessageSaved(f))
                  => messagesDb' = messagesDb /\ emitted' = emitted
      ]_vars

----------------------------------------------------------------------------
(* Claims about applications (SpecApply) *)

\* one jobApplicationNotification for request r, addressed to socket sid alone,
\* carrying title and applicantName
OneNotification(es, r, sid, title, applicantName) ==
    /\ Len(es) = 1
    /\ es[1].ev = "jobApplicationNotification"
    /\ es[1].req = r
    /\ es[1].rooms = {sid}
    /\ es[1].rcpt \subseteq {sid}
    /\ es[1].data.title = title
    /\ es[1].data.applicantName = applicantName

\* C4: a jobApplication event, or an apply request whose lookup returned the job,
\* handled while the employer has a presence entry, emits exactly one
\* jobApplicationNotification, with the job's title and the applicant name,
\* addressed to the socket the employer is registered on and to no other.
C4_OneNotificationToEmployer ==
    [][ /\ \A c \in SocketIds, e \in Users, t \in Titles, n \in Names :
              (JobApplication(c, e, t, n) /\ MapGet(connectedUsers, e) # Undefined)
                  => OneNotification(NewEmissions, nextReq', MapGet(connectedUsers, e), t, n)
        /\ \A f \in pending :
              (/\ PostApplyFound(f)
               /\ FindOne(jobsDb, f.jobId) # {}
               /\ MapGet(connectedUsers, f.employer) # Undefined)
                  => \E j \in jobsDb :
                        /\ j.id = f.jobId
                        /\ OneNotification(NewEmissions, f.req,
                                           MapGet(connectedUsers, f.employer),
                                           j.title, f.applicantName)
      ]_vars

\* an apply request for the stored job was delivered to the employer's socket while
\* the other user is registered on another connected socket, which received nothing
C4_Witness ==
    \E i \in 1..Len(emitted), u \in Users :
        /\ inputs[emitted[i].req].kind = "apply"
        /\ emitted[i].ev = "jobApplicationNotification"
        /\ emitted[i].data.title = "t1"
        /\ emitted[i].rcpt = emitted[i].rooms
        /\ u # inputs[emitted[i].req].employer
        /\ MapGet(connectedUsers, u) \in live \ emitted[i].rcpt

\* C5: an apply request whose lookup returned the job, handled while the employer
\* has no presence entry, reaches no socket with any emission, ends without an
\* exception, and is answered with the success response.
C5_OfflineEmployerStillSucceeds ==
    [][ \A f \in pending :
            (/\ PostApplyFound(f)
             /\ FindOne(jobsDb, f.jobId) # {}
             /\ MapGet(connectedUsers, f.employer) = Undefined)
                => /\ \A i \in 1..Len(NewEmissions) : NewEmissions[i].rcpt = {}
                   /\ outcome'[f.req] = "returned"
                   /\ Len(NewResponses) = 1
                   /\ NewResponses[1].req = f.req
                   /\ NewResponses[1].status = 200
                   /\ NewResponses[1].body.success = TRUE
      ]_vars

\* part_001 answered an apply request with success and emitted nothing, while a
\* socket was connected and registered as another user
C5_Witness ==
    \E r \in 1..nextReq, k \in 1..Len(responses) :
        /\ variant = "part_001"
        /\ inputs[r].kind = "apply"
        /\ responses[k].req = r
        /\ responses[k].status = 200
        /\ EmissionsOf(r) = {}
        /\ outcome[r] = "returned"
        /\ MapGet(connectedUsers, inputs[r].employer) = Undefined
        /\ \E u \in Users : MapGet(connectedUsers, u) \in live

\* C6: an apply request whose job id resolves to no job is answered 404 "Job not
\* found" and emits nothing, whether or not the employer is registered.
C6_MissingJobIs404 ==
    [][ \A f \in pending :
            (PostApplyFound(f) /\ FindOne(jobsDb, f.jobId) = {})
                => /\ NewEmissions = <<>>
                   /\ Len(NewResponses) = 1
                   /\ NewResponses[1].req = f.req
                   /\ NewResponses[1].status = 404
      ]_vars

----------------------------------------------------------------------------
(* Claims about retries (SpecNoRetry) *)

\* C16: no event is handled twice.  A handler resumes at most once; a sendMessage
\* event makes at most one insert and at most one receiveMessage emission; a
\* jobApplication event, an apply request and a notify request each make at most
\* one jobApplicationNotification emission; and an event that ended in its catch
\* block has stored and emitted nothing, then and ever after.
C16_NoEventIsRetried ==
    /\ \A f \in pending : outcome[f.req] = "pending"
    /\ \A r \in 1..nextReq :
          /\ Cardinality({f \in pending : f.req = r}) <= 1
          /\ Cardinality(EmissionsOf(r)) <= 1
          /\ outcome[r] \in Caught => EmissionsOf(r) = {}
          /\ inputs[r].kind = "sendMessage" =>
                /\ Cardinality(Stored(r)) <= 1
                /\ outcome[r] \in Caught => Stored(r) = {}
                /\ \A i \in EmissionsOf(r) : emitted[i].ev = "receiveMessage"
          /\ inputs[r].kind \in {"jobApplication", "apply", "notify-employer", "apply-job"} =>
                \A i \in EmissionsOf(r) : emitted[i].ev = "jobApplicationNotification"

\* an apply request has notified the employer once, and a later sendMessage whose
\* insert was rejected has stored and emitted nothing although its receiver is
\* registered on a connected socket
C16_Witness ==
    \E r1 \in 1..nextReq, r2 \in 1..nextReq :
        /\ inputs[r1].kind = "apply"
        /\ Cardinality(EmissionsOf(r1)) = 1
        /\ inputs[r2].kind = "sendMessage"
        /\ outcome[r2] = "rejected"
        /\ Stored(r2) = {}
        /\ EmissionsOf(r2) = {}
        /\ MapGet(connectedUsers, inputs[r2].receiverEmail) \in live

----------------------------------------------------------------------------
(* Claims about job postings (SpecJobs) *)

\* one newJobPosted emission for request r, received by every connected socket
OneBroadcast(es, r) ==
    /\ Len(es) = 1
    /\ es[1].ev = "newJobPosted"
    /\ es[1].req = r
    /\ es[1].rcpt = live

\* C7: the newJobPosted event, the job-post endpoint and a create-job whose
\* insert succeeded each emit newJobPosted once, to every socket connected at that
\* moment, whatever the presence registry holds.
C7_BroadcastReachesEveryConnection ==
    [][ /\ \A c \in SocketIds, t \in Titles :
              NewJobPosted(c, JobPosted(t)) => OneBroadcast(NewEmissions, nextReq')
        /\ \A t \in Titles : PostEmitJobPost(t) => OneBroadcast(NewEmissions, nextReq')
        /\ \A f \in pending : PostJobsInserted(f) => OneBroadcast(NewEmissions, f.req)
      ]_vars

\* a broadcast reached two connected sockets, neither of which ever registered:
\* the registry is empty and no socket has disconnected
C7_Witness ==
    \E i \in 1..Len(emitted) :
        /\ emitted[i].ev = "newJobPosted"
        /\ emitted[i].rcpt = live
        /\ Cardinality(live) >= 2
        /\ live = 1..nextId
        /\ connectedUsers = <<>>

ResponsesOf(r) == {k \in 1..Len(responses) : responses[k].req = r}

\* C8: for every create-job request: no broadcast and no response before the
\* insert completes; a failed insert (or an undefined jobsCollection) gives one 500
\* response and no broadcast; a successful insert gives one success response with
\* the id of the stored job and exactly one newJobPosted broadcast.
C8_CreateJobBroadcastsAfterInsert ==
    \A r \in 1..nextReq :
        inputs[r].kind = "jobs" =>
            /\ outcome[r] # "threw"
            /\ outcome[r] = "pending" => EmissionsOf(r) = {} /\ ResponsesOf(r) = {}
            /\ outcome[r] \in Caught =>
                  /\ EmissionsOf(r) = {}
                  /\ Cardinality(ResponsesOf(r)) = 1
                  /\ \A k \in ResponsesOf(r) : responses[k].status = 500
            /\ outcome[r] = "returned" =>
                  /\ Cardinality(EmissionsOf(r)) = 1
                  /\ \A i \in EmissionsOf(r) :
                        /\ emitted[i].ev = "newJobPosted"
                        /\ emitted[i].data.title = inputs[r].title
                  /\ Cardinality(ResponsesOf(r)) = 1
                  /\ \A k \in ResponsesOf(r) :
                        /\ responses[k].status = 200
                        /\ responses[k].body.success = TRUE
                        /\ \E j \in jobsDb :
                              /\ j.id = responses[k].body.insertedId
                              /\ j.title = inputs[r].title

\* one create-job whose insert was rejected beside one whose insert succeeded
C8_Witness ==
    \E r1 \in 1..nextReq, r2 \in 1..nextReq :
        /\ inputs[r1].kind = "jobs"
        /\ outcome[r1] = "rejected"
        /\ EmissionsOf(r1) = {}
        /\ inputs[r2].kind = "jobs"
        /\ outcome[r2] = "returned"
        /\ Cardinality(EmissionsOf(r2)) = 1
        /\ Cardinality(jobsDb) = Cardinality(InitialJobs) + 1

----------------------------------------------------------------------------
(* Claims about notify-employer (SpecNotify) *)

\* C9: notify-employer answers success and emits exactly one
\* jobApplicationNotification to the employer's socket when the employer has a
\* presence entry, and answers 404 with no emission when the employer has none.
C9_NotifyEmployer404WhenOffline ==
    [][ \A e \in Users, t \in Titles, n \in Names :
            PostNotifyEmployer(e, t, n) =>
                /\ Len(NewResponses) = 1
                /\ IF MapGet(connectedUsers, e) # Undefined
                   THEN /\ OneNotification(NewEmissions, nextReq',
                                           MapGet(connectedUsers, e), t, n)
                        /\ NewResponses[1].status = 200
                   ELSE /\ NewEmissions = <<>>
                        /\ NewResponses[1].status = 404
      ]_vars

----------------------------------------------------------------------------
(* Claims about generateRoomId (SpecRoom) *)

\* C10: for distinct identities A and B, generateRoomId(A, B) equals
\* generateRoomId(B, A).
C10_RoomIdSymmetric ==
    (roomAB # NoRoom /\ roomBA # NoRoom /\ user1 # user2) => roomAB = roomBA

\* both orders were computed for two identities of which the second sorts first,
\* so that the sort exchanged the arguments of the forward call
C10_Witness ==
    /\ roomAB # NoRoom
    /\ roomBA # NoRoom
    /\ StrLess(user2, user1)
    /\ roomAB = user2 \o Separator \o user1
    /\ roomBA = roomAB

\* C19: two different unordered pairs of identities never get the same room id,
\* also when an identity contains the separator "_".
C19_RoomIdSeparatesPairs ==
    roomAB # NoRoom =>
        \A c \in Identities, d \in Identities :
            {c, d} # {user1, user2} => generateRoomId(c, d) # roomAB

====
